---- MODULE Spec2Model ----
(***************************************************************************)
(* State-machine model of the auto-parts inventory application (app.py):   *)
(* session login, part CRUD and stock movements over the tables usuario,   *)
(* autopeca and movimentacoes.  One action per route handler; an action    *)
(* covers the whole handler, from the session check to the response.       *)
(*                                                                         *)
(* Form fields arrive as text.  Text that the code converts (int(),        *)
(* float(), str.upper()) is a sequence of one-character strings and the    *)
(* conversion is computed on it; text that is only stored is a string.     *)
(* A price is the exact decimal value num/den of the parsed text.          *)
(* A database failure is an input of the request: the connection fails,    *)
(* or the n-th execute or the commit raises pymysql.Error.  The connection *)
(* runs with autocommit, so a statement that ran stays written.            *)
(***************************************************************************)
EXTENDS Integers, Sequences, FiniteSets, TLC

\* ------------------------------------------------------------------ bounds

\* AUTO_INCREMENT ids handed out by the autopeca table in one run.
MaxPecas == 2
\* Rows the movimentacoes table holds in one run.
MaxMovs == 1

\* Most movement rows when requests run as interleaved threads.
MaxMovsThreads == 2

\* ------------------------------------------------------------ text helpers

Digitos == {"0", "1", "2", "3", "4", "5", "6", "7", "8", "9"}

DigitVal(c) ==
    CASE c = "0" -> 0 [] c = "1" -> 1 [] c = "2" -> 2 [] c = "3" -> 3
      [] c = "4" -> 4 [] c = "5" -> 5 [] c = "6" -> 6 [] c = "7" -> 7
      [] c = "8" -> 8 [] c = "9" -> 9

RECURSIVE LStrip(_)
LStrip(s) == IF s # <<>> /\ Head(s) = " " THEN LStrip(Tail(s)) ELSE s

RECURSIVE RStrip(_)
RStrip(s) ==
    IF s # <<>> /\ s[Len(s)] = " " THEN RStrip(SubSeq(s, 1, Len(s) - 1)) ELSE s

\* str.strip() as int() and float() apply it to their argument.
Strip(s) == RStrip(LStrip(s))

IsDigits(s) == s # <<>> /\ \A i \in 1..Len(s) : s[i] \in Digitos

RECURSIVE DigitsVal(_)
DigitsVal(s) ==
    IF s = <<>> THEN 0
    ELSE 10 * DigitsVal(SubSeq(s, 1, Len(s) - 1)) + DigitVal(s[Len(s)])

Sinal(t) == IF t # <<>> /\ t[1] = "-" THEN -1 ELSE 1

SemSinal(t) == IF t # <<>> /\ t[1] \in {"+", "-"} THEN Tail(t) ELSE t

\* int(text): surrounding blanks dropped, an optional sign, then decimal
\* digits; anything else raises ValueError (ok = FALSE).
PyInt(s) ==
    LET t == Strip(s)
        body == SemSinal(t)
    IN  IF IsDigits(body)
        THEN [ok |-> TRUE, val |-> Sinal(t) * DigitsVal(body)]
        ELSE [ok |-> FALSE, val |-> 0]

RECURSIVE Pow10(_)
Pow10(n) == IF n = 0 THEN 1 ELSE 10 * Pow10(n - 1)

RECURSIVE SemZerosFinais(_)
SemZerosFinais(s) ==
    IF s # <<>> /\ s[Len(s)] = "0"
    THEN SemZerosFinais(SubSeq(s, 1, Len(s) - 1)) ELSE s

Pontos(s) == {i \in 1..Len(s) : s[i] = "."}

\* float(text) on plain decimal notation: blanks dropped, optional sign,
\* digits with at most one point and a digit on one side of it at least.
\* The value is num/den with den a power of ten and no trailing zeros.
PyFloat(s) ==
    LET t == Strip(s)
        body == SemSinal(t)
        ps == Pontos(body)
        p == IF ps = {} THEN Len(body) + 1 ELSE CHOOSE i \in ps : TRUE
        ip == SubSeq(body, 1, p - 1)
        fp == SubSeq(body, p + 1, Len(body))
        fz == SemZerosFinais(fp)
        bem == /\ Cardinality(ps) <= 1
               /\ \A i \in 1..Len(ip) : ip[i] \in Digitos
               /\ \A i \in 1..Len(fp) : fp[i] \in Digitos
               /\ Len(ip) + Len(fp) > 0
    IN  IF bem
        THEN [ok |-> TRUE,
              val |-> [num |-> Sinal(t) * DigitsVal(ip \o fz), den |-> Pow10(Len(fz))]]
        ELSE [ok |-> FALSE, val |-> [num |-> 0, den |-> 1]]

Minusculas == <<"a", "b", "c", "d", "e", "f", "g", "h", "i", "j", "k", "l", "m",
                "n", "o", "p", "q", "r", "s", "t", "u", "v", "w", "x", "y", "z">>

Maiusculas == <<"A", "B", "C", "D", "E", "F", "G", "H", "I", "J", "K", "L", "M",
                "N", "O", "P", "Q", "R", "S", "T", "U", "V", "W", "X", "Y", "Z">>

UpperChar(c) ==
    IF \E i \in 1..26 : Minusculas[i] = c
    THEN Maiusculas[CHOOSE i \in 1..26 : Minusculas[i] = c]
    ELSE c

\* str.upper() on ASCII text.
Upper(s) == [i \in 1..Len(s) |-> UpperChar(s[i])]

ENTRADA == <<"E", "N", "T", "R", "A", "D", "A">>

\* ------------------------------------------------------------------- state

VARIABLES
    session,        \* Flask session: a function on the keys it holds
    autopeca,       \* table autopeca: ID_PECA -> row, for the rows that exist
    nextId,         \* the table's AUTO_INCREMENT counter
    movimentacoes,  \* table movimentacoes, in insertion order
    resp,           \* response of the last request handled
    threads         \* the requests in progress: each server thread's locals

vars == <<session, autopeca, nextId, movimentacoes, resp, threads>>

tabelas == <<autopeca, nextId, movimentacoes>>

\* Table usuario; the application never writes it.
usuario ==
    { [ID_USUARIO |-> 1, EMAIL |-> "admin@saep.com", SENHA |-> "admin123", NOME |-> "Administrador"],
      [ID_USUARIO |-> 2, EMAIL |-> "ana@saep.com", SENHA |-> "ana456", NOME |-> "Ana"] }

SessaoVazia == [k \in {} |-> 0]

\* Faulty variant: the check asks whether a session exists, which it always does.
LogadoSempre == session = session

\* 'user_id' in session
Logado == "user_id" \in DOMAIN session

\* A response: what the handler returned (a redirect to a route, a rendered
\* template, or an uncaught exception answered as HTTP 500), the messages it
\* flashed as <<text, category>>, and the connections it opened and closed.
Resposta(h, tipo, alvo, arg, msgs, abertas, fechadas) ==
    [handler |-> h, tipo |-> tipo, alvo |-> alvo, arg |-> arg,
     flashes |-> msgs, abertas |-> abertas, fechadas |-> fechadas]

Redirect(h, rota, msgs, n) == Resposta(h, "redirect", rota, 0, msgs, n, n)

Render(h, template, msgs, n) == Resposta(h, "render", template, 0, msgs, n, n)

\* The check every protected handler starts with.
ParaLogin(h) == Redirect(h, "login", <<>>, 0)

\* get_db_connection: None, with an error flashed, when the connect fails.
MsgConexao == <<"Erro ao conectar com o banco de dados MySQL", "error">>

\* The server threads that handle requests side by side.
Threads == {"t1", "t2"}

\* No row: what fetchone() gives when nothing matches.
NenhumaLinha == [ID_PECA |-> 0]

\* A thread before its first request: no locals, no connection.
Ocioso ==
    [handler |-> "nenhum", pc |-> "ocioso", user_id |-> 0,
     email |-> "", senha |-> "",
     id_peca |-> 0, quantidade |-> 0, tipo_movimentacao |-> <<>>,
     conn |-> "nenhuma", abertas |-> 0, fechadas |-> 0,
     autopeca |-> NenhumaLinha, novo_estoque |-> 0,
     inseriu |-> FALSE, atualizou |-> FALSE,
     flashes |-> <<>>, retorno |-> <<>>]

Init ==
    /\ session = SessaoVazia
    /\ autopeca = [i \in {} |-> 0]
    /\ nextId = 1
    /\ movimentacoes = <<>>
    /\ resp = Resposta("nenhum", "nenhum", "nenhum", 0, <<>>, 0, 0)
    /\ threads = [t \in Threads |-> Ocioso]

\* ----------------------------------------------------------- auth handlers

index ==
    /\ resp' = IF Logado THEN Redirect("index", "dashboard", <<>>, 0)
               ELSE Redirect("index", "login", <<>>, 0)
    /\ UNCHANGED <<session, tabelas>>

login_get ==
    /\ resp' = Render("login", "login.html", <<>>, 0)
    /\ UNCHANGED <<session, tabelas>>

\* Faulty variant: OR in place of AND in the WHERE clause.
SelectUsuarioOu(email, senha) == {u \in usuario : u.EMAIL = email \/ u.SENHA = senha}

\* SELECT * FROM usuario WHERE EMAIL = %s AND SENHA = %s
SelectUsuario(email, senha) == {u \in usuario : u.EMAIL = email /\ u.SENHA = senha}

SessaoCom(u) ==
    [k \in DOMAIN session \cup {"user_id", "user_name"} |->
        IF k = "user_id" THEN u.ID_USUARIO
        ELSE IF k = "user_name" THEN u.NOME ELSE session[k]]

login_post(email, senha, falha) ==
    LET achados == SelectUsuario(email, senha)
    IN  /\ UNCHANGED tabelas
        /\ IF falha = "conexao"
           THEN /\ session' = session
                /\ resp' = Render("login", "login.html", <<MsgConexao>>, 0)
           ELSE IF falha = "execute1"
           THEN /\ session' = session
                /\ resp' = Render("login", "login.html",
                                  <<<<"Erro ao verificar credenciais", "error">>>>, 1)
           ELSE IF achados # {}
           THEN /\ session' = SessaoCom(CHOOSE u \in achados : TRUE)
                /\ resp' = Redirect("login", "dashboard", <<>>, 1)
           ELSE /\ session' = session
                /\ resp' = Render("login", "login.html",
                                  <<<<"Credenciais invalidas. Tente novamente.", "error">>>>, 1)

logout ==
    /\ session' = SessaoVazia
    /\ resp' = Redirect("logout", "login", <<>>, 0)
    /\ UNCHANGED tabelas

dashboard ==
    /\ resp' = IF ~Logado THEN ParaLogin("dashboard")
               ELSE Render("dashboard", "dashboard.html", <<>>, 0)
    /\ UNCHANGED <<session, tabelas>>

\* --------------------------------------------------------- catalog handlers

\* SELECT * FROM autopeca: the list view, without a search term.
autopecas(falha) ==
    /\ resp' = IF ~Logado THEN ParaLogin("autopecas")
               ELSE IF falha = "conexao"
               THEN Render("autopecas", "autopecas.html", <<MsgConexao>>, 0)
               ELSE IF falha = "execute1"
               THEN Render("autopecas", "autopecas.html",
                           <<<<"Erro ao buscar autopecas", "error">>>>, 1)
               ELSE Render("autopecas", "autopecas.html", <<>>, 1)
    /\ UNCHANGED <<session, tabelas>>

\* The three conversions of the create form; any ValueError ends the handler.
ConverteAdd(f) ==
    LET e == PyInt(f.estoque)
        m == PyInt(f.estoque_minimo)
        p == PyFloat(f.preco)
    IN  [ok |-> e.ok /\ m.ok /\ p.ok,
         estoque |-> e.val, estoque_minimo |-> m.val, preco |-> p.val]

\* Faulty variant: the price check lets zero through.
ValidaAddPrecoZero(estoque, estoque_minimo, preco) ==
    IF estoque < 0 THEN "Estoque nao pode ser negativo"
    ELSE IF estoque_minimo < 0 THEN "Estoque minimo nao pode ser negativo"
    ELSE IF preco.num < 0 THEN "Preco deve ser maior que zero"
    ELSE "ok"

\* The business checks of the create form, in the code's order: the message
\* of the first one that fails, or "ok".
ValidaAdd(estoque, estoque_minimo, preco) ==
    IF estoque < 0 THEN "Estoque nao pode ser negativo"
    ELSE IF estoque_minimo < 0 THEN "Estoque minimo nao pode ser negativo"
    ELSE IF preco.num <= 0 THEN "Preco deve ser maior que zero"
    ELSE "ok"

\* Faulty variant: stock and threshold change places in the parameter tuple.
LinhaTrocada(f, c) ==
    [NOME_PECA |-> f.nome_peca, DESCRICAO |-> f.descricao,
     ESTOQUE |-> c.estoque_minimo, ESTOQUE_MINIMO |-> c.estoque,
     NUM_SERIAL |-> f.num_serie, COMPATIBILIDADE |-> f.compatibilidade,
     PRECO |-> c.preco]

\* The row the INSERT / UPDATE writes from the form and the converted values.
Linha(f, c) ==
    [NOME_PECA |-> f.nome_peca, DESCRICAO |-> f.descricao,
     ESTOQUE |-> c.estoque, ESTOQUE_MINIMO |-> c.estoque_minimo,
     NUM_SERIAL |-> f.num_serie, COMPATIBILIDADE |-> f.compatibilidade,
     PRECO |-> c.preco]

\* INSERT INTO autopeca: the new row gets the next AUTO_INCREMENT id.
InsertAutopeca(linha) ==
    [i \in DOMAIN autopeca \cup {nextId} |-> IF i = nextId THEN linha ELSE autopeca[i]]

add_autopeca(f, falha) ==
    LET c == ConverteAdd(f)
        v == ValidaAdd(c.estoque, c.estoque_minimo, c.preco)
        h == "add_autopeca"
    IN  /\ UNCHANGED <<session, movimentacoes>>
        /\ IF ~Logado
           THEN /\ resp' = ParaLogin(h)
                /\ UNCHANGED <<autopeca, nextId>>
           ELSE IF ~c.ok
           THEN /\ resp' = Redirect(h, "autopecas",
                      <<<<"Valores numericos invalidos. Verifique estoque e preco.", "error">>>>, 0)
                /\ UNCHANGED <<autopeca, nextId>>
           ELSE IF v # "ok"
           THEN /\ resp' = Redirect(h, "autopecas", <<<<v, "error">>>>, 0)
                /\ UNCHANGED <<autopeca, nextId>>
           ELSE IF falha = "conexao"
           THEN /\ resp' = Redirect(h, "autopecas", <<MsgConexao>>, 0)
                /\ UNCHANGED <<autopeca, nextId>>
           ELSE IF falha = "execute1"
           THEN /\ resp' = Redirect(h, "autopecas", <<<<"Erro ao adicionar autopeca", "error">>>>, 1)
                /\ UNCHANGED <<autopeca, nextId>>
           ELSE /\ nextId <= MaxPecas
                /\ autopeca' = InsertAutopeca(Linha(f, c))
                /\ nextId' = nextId + 1
                /\ resp' = IF falha = "commit"
                           THEN Redirect(h, "autopecas", <<<<"Erro ao adicionar autopeca", "error">>>>, 1)
                           ELSE Redirect(h, "autopecas", <<<<"Autopeca adicionada com sucesso!", "success">>>>, 1)

MsgNaoEncontrada == <<"Autopeca nao encontrada!", "error">>

edit_autopeca(id, falha) ==
    LET h == "edit_autopeca"
    IN  /\ UNCHANGED <<session, tabelas>>
        /\ resp' =
             IF ~Logado THEN ParaLogin(h)
             ELSE IF falha = "conexao"
             THEN Redirect(h, "autopecas", <<MsgConexao, MsgNaoEncontrada>>, 0)
             ELSE IF falha = "execute1"
             THEN Redirect(h, "autopecas",
                           <<<<"Erro ao buscar autopeca", "error">>, MsgNaoEncontrada>>, 1)
             ELSE IF id \notin DOMAIN autopeca
             THEN Redirect(h, "autopecas", <<MsgNaoEncontrada>>, 1)
             ELSE Resposta(h, "render", "edit_autopeca.html", id, <<>>, 1, 1)

\* The conversions of the edit form.
ConverteUpdate(f) ==
    LET e == PyInt(f.estoque)
        m == PyInt(f.estoque_minimo)
        p == PyFloat(f.preco)
    IN  [ok |-> e.ok /\ m.ok /\ p.ok,
         estoque |-> e.val, estoque_minimo |-> m.val, preco |-> p.val]

\* The business checks of the edit form, in the code's order.
ValidaUpdate(estoque, estoque_minimo, preco) ==
    IF estoque < 0 THEN "Estoque nao pode ser negativo"
    ELSE IF estoque_minimo < 0 THEN "Estoque minimo nao pode ser negativo"
    ELSE IF preco.num <= 0 THEN "Preco deve ser maior que zero"
    ELSE "ok"

\* UPDATE autopeca SET <every column> WHERE ID_PECA = id: no row, no change.
UpdateAutopeca(id, linha) ==
    [i \in DOMAIN autopeca |-> IF i = id THEN linha ELSE autopeca[i]]

\* A redirect back to the edit form of the same id.
ParaEdicao(h, id, msgs) == Resposta(h, "redirect", "edit_autopeca", id, msgs, 0, 0)

update_autopeca(id, f, falha) ==
    LET c == ConverteUpdate(f)
        v == ValidaUpdate(c.estoque, c.estoque_minimo, c.preco)
        h == "update_autopeca"
    IN  /\ UNCHANGED <<session, movimentacoes, nextId>>
        /\ IF ~Logado
           THEN /\ resp' = ParaLogin(h)
                /\ autopeca' = autopeca
           ELSE IF ~c.ok
           THEN /\ resp' = ParaEdicao(h, id, <<<<"Valores numericos invalidos!", "error">>>>)
                /\ autopeca' = autopeca
           ELSE IF v # "ok"
           THEN /\ resp' = ParaEdicao(h, id, <<<<v, "error">>>>)
                /\ autopeca' = autopeca
           ELSE IF falha = "conexao"
           THEN /\ resp' = Redirect(h, "autopecas", <<MsgConexao>>, 0)
                /\ autopeca' = autopeca
           ELSE IF falha = "execute1"
           THEN /\ resp' = Redirect(h, "autopecas", <<<<"Erro ao atualizar autopeca", "error">>>>, 1)
                /\ autopeca' = autopeca
           ELSE /\ autopeca' = UpdateAutopeca(id, Linha(f, c))
                /\ resp' = IF falha = "commit"
                           THEN Redirect(h, "autopecas", <<<<"Erro ao atualizar autopeca", "error">>>>, 1)
                           ELSE Redirect(h, "autopecas", <<<<"Autopeca atualizada com sucesso!", "success">>>>, 1)

\* The foreign key movimentacoes.ID_PECA -> autopeca: a part that has
\* movement history cannot be deleted, the DELETE raises.
TemMovimentacoes(id) == \E i \in 1..Len(movimentacoes) : movimentacoes[i].ID_PECA = id

\* Faulty variant: a DELETE without its WHERE clause.
DeleteTudo(id) == [i \in {} |-> autopeca[i]]

\* DELETE FROM autopeca WHERE ID_PECA = id: no row, no change.
DeleteAutopeca(id) == [i \in DOMAIN autopeca \ {id} |-> autopeca[i]]

delete_autopeca(id, falha) ==
    LET h == "delete_autopeca"
    IN  /\ UNCHANGED <<session, movimentacoes, nextId>>
        /\ IF ~Logado
           THEN /\ resp' = ParaLogin(h)
                /\ autopeca' = autopeca
           ELSE IF falha = "conexao"
           THEN /\ resp' = Redirect(h, "autopecas", <<MsgConexao>>, 0)
                /\ autopeca' = autopeca
           ELSE IF falha = "execute1" \/ TemMovimentacoes(id)
           THEN /\ resp' = Redirect(h, "autopecas", <<<<"Erro ao excluir autopeca", "error">>>>, 1)
                /\ autopeca' = autopeca
           ELSE /\ autopeca' = DeleteAutopeca(id)
                /\ resp' = IF falha = "commit"
                           THEN Redirect(h, "autopecas", <<<<"Erro ao excluir autopeca", "error">>>>, 1)
                           ELSE Redirect(h, "autopecas", <<<<"Autopeca excluida com sucesso!", "success">>>>, 1)

\* ----------------------------------------------------------- stock handlers

\* The stock view: SELECT of the parts, then of the last movements.
estoque(falha) ==
    /\ resp' = IF ~Logado THEN ParaLogin("estoque")
               ELSE IF falha = "conexao"
               THEN Render("estoque", "estoque.html", <<MsgConexao>>, 0)
               ELSE IF falha = "execute1"
               THEN Render("estoque", "estoque.html",
                           <<<<"Erro ao carregar dados de estoque", "error">>>>, 1)
               ELSE Render("estoque", "estoque.html", <<>>, 1)
    /\ UNCHANGED <<session, tabelas>>

\* The two int() conversions at the top of the movement handler, outside any
\* try block: a ValueError leaves the handler uncaught.
ConverteMov(f) ==
    LET i == PyInt(f.id_peca)
        q == PyInt(f.quantidade)
    IN  [ok |-> i.ok /\ q.ok, id_peca |-> i.val, quantidade |-> q.val]

\* Faulty variant: the direction is compared without upper-casing it.
NovoEstoqueSemUpper(estoque_atual, quantidade, tipo) ==
    IF tipo = ENTRADA THEN estoque_atual + quantidade
    ELSE estoque_atual - quantidade

\* novo_estoque: ENTRADA adds, every other direction subtracts.
NovoEstoque(estoque_atual, quantidade, tipo) ==
    IF Upper(tipo) = ENTRADA THEN estoque_atual + quantidade
    ELSE estoque_atual - quantidade

\* Faulty variant: the stock check adds the quantity it should subtract.
InsuficienteSinalTrocado(estoque_atual, quantidade, tipo) ==
    /\ Upper(tipo) # ENTRADA
    /\ estoque_atual + quantidade < 0

\* The only stock check: in the subtracting branch, a negative result.
Insuficiente(estoque_atual, quantidade, tipo) ==
    /\ Upper(tipo) # ENTRADA
    /\ estoque_atual - quantidade < 0

\* INSERT INTO movimentacoes (the DATA_MOVI column is left out: no handler
\* reads it back into a decision).
InsertMovimentacao(id_peca, quantidade, tipo) ==
    Append(movimentacoes,
           [ID_USUARIO |-> session["user_id"], ID_PECA |-> id_peca,
            QUANTIDADE |-> quantidade, TIPO_MOVI |-> Upper(tipo)])

\* Faulty variant: the UPDATE without its WHERE clause.
UpdateEstoqueSemWhere(id_peca, novo_estoque) ==
    [i \in DOMAIN autopeca |-> [autopeca[i] EXCEPT !.ESTOQUE = novo_estoque]]

\* UPDATE autopeca SET ESTOQUE = %s WHERE ID_PECA = %s
UpdateEstoque(id_peca, novo_estoque) ==
    [i \in DOMAIN autopeca |->
        IF i = id_peca THEN [autopeca[i] EXCEPT !.ESTOQUE = novo_estoque] ELSE autopeca[i]]

\* Faulty variant: stock equal to the minimum already warns.
MsgMovimentacaoIgual(novo_estoque, estoque_minimo) ==
    IF novo_estoque <= estoque_minimo
    THEN <<"ALERTA: Estoque da peca esta abaixo do minimo!", "warning">>
    ELSE <<"Movimentacao registrada com sucesso!", "success">>

\* The message after the commit: below the minimum warns, otherwise success.
MsgMovimentacao(novo_estoque, estoque_minimo) ==
    IF novo_estoque < estoque_minimo
    THEN <<"ALERTA: Estoque da peca esta abaixo do minimo!", "warning">>
    ELSE <<"Movimentacao registrada com sucesso!", "success">>

MsgErroMov == <<"Erro ao registrar movimentacao", "error">>

MsgInsuficiente == <<"Estoque insuficiente para esta movimentacao!", "error">>

add_movimentacao(f, falha) ==
    LET c == ConverteMov(f)
        h == "add_movimentacao"
        tipo == f.tipo_movimentacao
    IN  /\ UNCHANGED <<session, nextId>>
        /\ IF ~Logado
           THEN /\ resp' = ParaLogin(h)
                /\ UNCHANGED <<autopeca, movimentacoes>>
           ELSE IF ~c.ok
           THEN /\ resp' = Resposta(h, "erro500", "ValueError", 0, <<>>, 0, 0)
                /\ UNCHANGED <<autopeca, movimentacoes>>
           ELSE IF falha = "conexao"
           THEN /\ resp' = Redirect(h, "estoque", <<MsgConexao>>, 0)
                /\ UNCHANGED <<autopeca, movimentacoes>>
           ELSE IF falha = "execute1"
           THEN /\ resp' = Redirect(h, "estoque", <<MsgErroMov>>, 1)
                /\ UNCHANGED <<autopeca, movimentacoes>>
           ELSE IF c.id_peca \notin DOMAIN autopeca
           THEN /\ resp' = Redirect(h, "estoque", <<MsgNaoEncontrada>>, 1)
                /\ UNCHANGED <<autopeca, movimentacoes>>
           ELSE IF Insuficiente(autopeca[c.id_peca].ESTOQUE, c.quantidade, tipo)
           THEN /\ resp' = Redirect(h, "estoque", <<MsgInsuficiente>>, 1)
                /\ UNCHANGED <<autopeca, movimentacoes>>
           ELSE IF falha = "execute2"
           THEN /\ resp' = Redirect(h, "estoque", <<MsgErroMov>>, 1)
                /\ UNCHANGED <<autopeca, movimentacoes>>
           ELSE LET linha == autopeca[c.id_peca]
                    novo_estoque == NovoEstoque(linha.ESTOQUE, c.quantidade, tipo)
                IN  /\ Len(movimentacoes) < MaxMovs
                    /\ movimentacoes' = InsertMovimentacao(c.id_peca, c.quantidade, tipo)
                    /\ IF falha = "execute3"
                       THEN /\ autopeca' = autopeca
                            /\ resp' = Redirect(h, "estoque", <<MsgErroMov>>, 1)
                       ELSE /\ autopeca' = UpdateEstoque(c.id_peca, novo_estoque)
                            /\ resp' = IF falha = "commit"
                                       THEN Redirect(h, "estoque", <<MsgErroMov>>, 1)
                                       ELSE Redirect(h, "estoque",
                                                <<MsgMovimentacao(novo_estoque, linha.ESTOQUE_MINIMO)>>, 1)

\* ------------------------------------------------------------------ inputs

Emails == {u.EMAIL : u \in usuario}
Senhas == {u.SENHA : u \in usuario}

\* Where a request's database work fails, if anywhere.
FalhasLeitura == {"nenhuma", "conexao", "execute1"}
FalhasEscrita == {"nenhuma", "conexao", "execute1", "commit"}
FalhasMov == {"nenhuma", "conexao", "execute1", "execute2", "execute3", "commit"}

Ids == 1..MaxPecas

FormA ==
    [nome_peca |-> "Filtro de oleo", descricao |-> "Filtro do motor",
     num_serie |-> "FO-001", compatibilidade |-> "Gol",
     estoque |-> <<"1", "0">>, estoque_minimo |-> <<"5">>, preco |-> <<"1", ".", "5">>]

FormB ==
    [nome_peca |-> "Vela", descricao |-> "Vela de ignicao",
     num_serie |-> "VI-002", compatibilidade |-> "Uno",
     estoque |-> <<"0">>, estoque_minimo |-> <<" ", "6">>, preco |-> <<"2", "0">>]

FormsValidos == {FormA, FormB}

\* FormA with one numeric field out of range or not a number.
FormsInvalidos ==
    {[FormA EXCEPT !.estoque = t] : t \in {<<"-", "1">>, <<"x">>}}
    \cup {[FormA EXCEPT !.estoque_minimo = t] : t \in {<<"-", "2">>, <<>>}}
    \cup {[FormA EXCEPT !.preco = t] : t \in {<<"0">>, <<"-", "1", ".", "5">>, <<"1", ".", "5", ".", "0">>}}

Forms == FormsValidos \cup FormsInvalidos

FormsMov ==
    [id_peca : {<<"1">>, <<"x">>},
     quantidade : {<<"5">>, <<"2", "0">>, <<"-", "2", "0">>, <<"5", ".", "0">>},
     tipo_movimentacao : {<<"E", "n", "t", "r", "a", "d", "a">>, <<"s", "a", "i", "d", "a">>}]

\* A request is a form together with the database failure it meets; the
\* failure only matters to a form that gets as far as the database.
PedidosLogin == Emails \X Senhas \X FalhasLeitura

PedidosPeca == (Forms \X {"nenhuma"}) \cup (FormsValidos \X FalhasEscrita)

FormMovA ==
    [id_peca |-> <<"1">>, quantidade |-> <<"5">>,
     tipo_movimentacao |-> <<"E", "n", "t", "r", "a", "d", "a">>]

\* An outbound movement on the second part.
FormMovB ==
    [id_peca |-> <<"2">>, quantidade |-> <<"5">>,
     tipo_movimentacao |-> <<"s", "a", "i", "d", "a">>]

PedidosMov ==
    (FormsMov \X {"nenhuma"}) \cup ({FormMovA} \X FalhasMov) \cup {<<FormMovB, "nenhuma">>}

\* The requests of one run: every handler takes its inputs from the sets given.
\* Each request is handled whole, one after the other; no thread is mid-way.
Prox(logins, pecas, edicoes, movs, leituras, escritas) ==
    \/ index /\ UNCHANGED threads
    \/ login_get /\ UNCHANGED threads
    \/ \E p \in logins : login_post(p[1], p[2], p[3]) /\ UNCHANGED threads
    \/ logout /\ UNCHANGED threads
    \/ dashboard /\ UNCHANGED threads
    \/ \E falha \in leituras : autopecas(falha) /\ UNCHANGED threads
    \/ \E p \in pecas : add_autopeca(p[1], p[2]) /\ UNCHANGED threads
    \/ \E id \in Ids, falha \in leituras : edit_autopeca(id, falha) /\ UNCHANGED threads
    \/ \E id \in Ids, p \in edicoes : update_autopeca(id, p[1], p[2]) /\ UNCHANGED threads
    \/ \E id \in Ids, falha \in escritas : delete_autopeca(id, falha) /\ UNCHANGED threads
    \/ \E falha \in leituras : estoque(falha) /\ UNCHANGED threads
    \/ \E p \in movs : add_movimentacao(p[1], p[2]) /\ UNCHANGED threads

\* The second user logging in, the database answering.
LoginAna == {<<"ana@saep.com", "ana456", "nenhuma">>}

PecasMinimo == {<<FormA, "nenhuma">>, <<[FormA EXCEPT !.preco = <<"0">>], "nenhuma">>}

MovsMinimo == {<<FormMovA, "nenhuma">>}

\* Session runs: every login attempt, few catalog and stock inputs.
NextSessao == Prox(PedidosLogin, PecasMinimo, PecasMinimo, MovsMinimo, {"nenhuma"}, {"nenhuma"})

\* Catalog runs: one user, every form and failure of the part handlers.
NextCatalogo == Prox(LoginAna, PedidosPeca, PedidosPeca, MovsMinimo, FalhasLeitura, FalhasEscrita)

\* Stock runs: one user, every movement request, parts created from the
\* valid forms and reset by the first of them.
NextEstoque ==
    Prox(LoginAna, FormsValidos \X {"nenhuma"}, {<<FormA, "nenhuma">>}, PedidosMov,
         {"nenhuma"}, {"nenhuma"})

SpecSessao == Init /\ [][NextSessao]_vars

SpecCatalogo == Init /\ [][NextCatalogo]_vars

SpecEstoque == Init /\ [][NextEstoque]_vars

\* ------------------------------------------------------ requests as threads
\* The login and movement handlers statement by statement, each request on a
\* thread of its own, so that two requests can interleave and a request can
\* stop half-way.

\* Faulty variant: the connection is opened without autocommit.
autocommitDesligado == FALSE

\* 'autocommit': True in DB_CONFIG: every statement is committed as it runs.
\* Without it a statement's writes wait for conn.commit() and are dropped if
\* the connection closes first.
autocommit == TRUE

\* A thread that can take a new request.
Livre(t) == threads[t].pc \in {"ocioso", "retornou", "caiu"}

\* The thread moves on inside its handler; nothing is answered yet.
Segue(t, th) ==
    /\ threads' = [threads EXCEPT ![t] = th]
    /\ resp' = resp

\* The handler returns: the response goes out with what was flashed, the
\* handler's locals are gone, the connection object is as the handler left it.
Retorna(t, th, tipo, alvo) ==
    /\ threads' = [threads EXCEPT ![t] =
           [Ocioso EXCEPT !.handler = th.handler, !.pc = "retornou", !.conn = th.conn,
                          !.abertas = th.abertas, !.fechadas = th.fechadas]]
    /\ resp' = Resposta(th.handler, tipo, alvo, 0, th.flashes, th.abertas, th.fechadas)

\* What the handler returns when nothing inside the try block returned first.
RetornoFinal(th) ==
    IF th.retorno # <<>> THEN th.retorno
    ELSE IF th.handler = "login" THEN <<"render", "login.html">>
    ELSE <<"redirect", "estoque">>

\* login, POST: the form is read and the handler goes to open a connection.
login_inicio(t, email, senha) ==
    /\ Livre(t)
    /\ Segue(t, [Ocioso EXCEPT !.handler = "login", !.pc = "conectar",
                               !.email = email, !.senha = senha])
    /\ UNCHANGED <<session, tabelas>>

\* conn = get_db_connection(); if conn: ... else fall through to the return.
get_db_connection(t, ok) ==
    LET th == threads[t]
        falhou == [th EXCEPT !.flashes = Append(@, MsgConexao)]
    IN  /\ th.pc = "conectar"
        /\ IF ok
           THEN Segue(t, [th EXCEPT !.conn = "aberta", !.abertas = @ + 1, !.pc = "select"])
           ELSE Retorna(t, falhou, RetornoFinal(falhou)[1], RetornoFinal(falhou)[2])
        /\ UNCHANGED <<session, tabelas>>

\* login: the SELECT of the user; a match fills the session and returns from
\* inside the try block, anything else flashes and falls to the finally.
login_select(t, erro) ==
    LET th == threads[t]
        achados == SelectUsuario(th.email, th.senha)
    IN  /\ th.handler = "login"
        /\ th.pc = "select"
        /\ UNCHANGED <<tabelas, resp>>
        /\ IF erro
           THEN /\ session' = session
                /\ threads' = [threads EXCEPT ![t] =
                       [th EXCEPT !.pc = "finally",
                                  !.flashes = Append(@, <<"Erro ao verificar credenciais", "error">>)]]
           ELSE IF achados # {}
           THEN /\ session' = SessaoCom(CHOOSE u \in achados : TRUE)
                /\ threads' = [threads EXCEPT ![t] =
                       [th EXCEPT !.pc = "finally", !.retorno = <<"redirect", "dashboard">>]]
           ELSE /\ session' = session
                /\ threads' = [threads EXCEPT ![t] =
                       [th EXCEPT !.pc = "finally",
                                  !.flashes = Append(@, <<"Credenciais invalidas. Tente novamente.", "error">>)]]

\* add_movimentacao up to the connection: the session check and the two
\* int() conversions. The session is the request's own, read from its cookie:
\* what other requests do to theirs later does not reach it.
add_movimentacao_inicio(t, f) ==
    LET c == ConverteMov(f)
        th == [Ocioso EXCEPT !.handler = "add_movimentacao"]
    IN  /\ Livre(t)
        /\ UNCHANGED <<session, tabelas>>
        /\ IF ~Logado THEN Retorna(t, th, "redirect", "login")
           ELSE IF ~c.ok THEN Retorna(t, th, "erro500", "ValueError")
           ELSE Segue(t, [th EXCEPT !.pc = "conectar", !.id_peca = c.id_peca,
                                    !.user_id = session["user_id"],
                                    !.quantidade = c.quantidade,
                                    !.tipo_movimentacao = f.tipo_movimentacao])

\* add_movimentacao: the SELECT of the part, novo_estoque and the stock check.
add_movimentacao_select(t, erro) ==
    LET th == threads[t]
        para(msg) == [th EXCEPT !.pc = "finally", !.flashes = Append(@, msg)]
    IN  /\ th.handler = "add_movimentacao"
        /\ th.pc = "select"
        /\ UNCHANGED <<session, tabelas>>
        /\ IF erro THEN Segue(t, para(MsgErroMov))
           ELSE IF th.id_peca \notin DOMAIN autopeca
           THEN Segue(t, [para(MsgNaoEncontrada) EXCEPT !.retorno = <<"redirect", "estoque">>])
           ELSE IF Insuficiente(autopeca[th.id_peca].ESTOQUE, th.quantidade, th.tipo_movimentacao)
           THEN Segue(t, [para(MsgInsuficiente) EXCEPT
                               !.retorno = <<"redirect", "estoque">>,
                               !.autopeca = autopeca[th.id_peca]])
           ELSE Segue(t, [th EXCEPT
                               !.pc = "insert",
                               !.autopeca = autopeca[th.id_peca],
                               !.novo_estoque = NovoEstoque(autopeca[th.id_peca].ESTOQUE,
                                                            th.quantidade, th.tipo_movimentacao)])

\* The row of the INSERT, from the request's session and form.
LinhaMovimentacao(th) ==
    [ID_USUARIO |-> th.user_id, ID_PECA |-> th.id_peca,
     QUANTIDADE |-> th.quantidade, TIPO_MOVI |-> Upper(th.tipo_movimentacao)]

\* Faulty variant: the statement writes over the newest row.
MovimentacoesSobrescritas(th) ==
    IF movimentacoes = <<>> THEN <<LinhaMovimentacao(th)>>
    ELSE [movimentacoes EXCEPT ![Len(movimentacoes)] = LinhaMovimentacao(th)]

\* The table after the INSERT: the new row after the ones already there.
MovimentacoesComInsert(th) == Append(movimentacoes, LinhaMovimentacao(th))

\* add_movimentacao: INSERT INTO movimentacoes.
add_movimentacao_insert(t, erro) ==
    LET th == threads[t]
    IN  /\ th.handler = "add_movimentacao"
        /\ th.pc = "insert"
        /\ UNCHANGED <<session, autopeca, nextId>>
        /\ IF erro
           THEN /\ movimentacoes' = movimentacoes
                /\ Segue(t, [th EXCEPT !.pc = "finally", !.flashes = Append(@, MsgErroMov)])
           ELSE /\ Len(movimentacoes) < MaxMovsThreads
                /\ movimentacoes' =
                       IF autocommit
                       THEN MovimentacoesComInsert(th)
                       ELSE movimentacoes
                /\ Segue(t, [th EXCEPT !.pc = "update", !.inseriu = TRUE])

\* Faulty variant: the statement adds the quantity to the row as it is now.
EstoqueGravadoRelido(th) ==
    NovoEstoque(autopeca[th.id_peca].ESTOQUE, th.quantidade, th.tipo_movimentacao)

\* The value the UPDATE is given: novo_estoque, worked out from the row the
\* handler read at its start.
EstoqueGravado(th) == th.novo_estoque

\* add_movimentacao: UPDATE autopeca SET ESTOQUE.
add_movimentacao_update(t, erro) ==
    LET th == threads[t]
    IN  /\ th.handler = "add_movimentacao"
        /\ th.pc = "update"
        /\ UNCHANGED <<session, movimentacoes, nextId>>
        /\ IF erro
           THEN /\ autopeca' = autopeca
                /\ Segue(t, [th EXCEPT !.pc = "finally", !.flashes = Append(@, MsgErroMov)])
           ELSE /\ autopeca' = IF autocommit
                               THEN UpdateEstoque(th.id_peca, EstoqueGravado(th))
                               ELSE autopeca
                /\ Segue(t, [th EXCEPT !.pc = "commit", !.atualizou = TRUE])

\* add_movimentacao: conn.commit() and the message that follows it.
add_movimentacao_commit(t, erro) ==
    LET th == threads[t]
    IN  /\ th.handler = "add_movimentacao"
        /\ th.pc = "commit"
        /\ UNCHANGED <<session, nextId>>
        /\ IF erro
           THEN /\ UNCHANGED <<autopeca, movimentacoes>>
                /\ Segue(t, [th EXCEPT !.pc = "finally", !.flashes = Append(@, MsgErroMov)])
           ELSE /\ IF autocommit
                   THEN UNCHANGED <<autopeca, movimentacoes>>
                   ELSE /\ movimentacoes' = MovimentacoesComInsert(th)
                        /\ autopeca' = UpdateEstoque(th.id_peca, EstoqueGravado(th))
                /\ Segue(t, [th EXCEPT
                       !.pc = "finally",
                       !.flashes = Append(@, MsgMovimentacao(th.novo_estoque,
                                                            th.autopeca.ESTOQUE_MINIMO))])

\* Faulty variant: a return from inside the try block leaves without closing.
FechaSemFinally(th) ==
    IF th.retorno # <<>> THEN th
    ELSE [th EXCEPT !.conn = "fechada", !.fechadas = @ + 1]

\* cursor.close(); conn.close()
Fecha(th) == [th EXCEPT !.conn = "fechada", !.fechadas = @ + 1]

\* The finally block of either handler, then the return: the one that was
\* pending from inside the try block, or the one at the handler's end.
finally(t) ==
    LET th == Fecha(threads[t])
    IN  /\ threads[t].pc = "finally"
        /\ Retorna(t, th, RetornoFinal(th)[1], RetornoFinal(th)[2])
        /\ UNCHANGED <<session, tabelas>>

\* The request stops between the INSERT and the UPDATE: the server process
\* is killed, or the thread dies on something that is not a database error.
crash(t) ==
    /\ threads[t].pc = "update"
    /\ threads' = [threads EXCEPT ![t].pc = "caiu"]
    /\ UNCHANGED <<session, tabelas, resp>>

LoginsThreads == {<<"ana@saep.com", "ana456">>, <<"ana@saep.com", "admin123">>}

FormMovC ==
    [id_peca |-> <<"1">>, quantidade |-> <<"5">>,
     tipo_movimentacao |-> <<"s", "a", "i", "d", "a">>]

\* Five in, five out: two of the second empty the stock of ten, a third
\* finds it insufficient.
FormsMovThreads == {FormMovA, FormMovC}

\* Requests as threads: logins and movements step by step, and one part
\* created by a whole request.
NextThreads ==
    \/ \E t \in Threads, p \in LoginsThreads : login_inicio(t, p[1], p[2])
    \/ \E t \in Threads, ok \in BOOLEAN : get_db_connection(t, ok)
    \/ \E t \in Threads, erro \in BOOLEAN : login_select(t, erro)
    \/ \E t \in Threads, f \in FormsMovThreads : add_movimentacao_inicio(t, f)
    \/ \E t \in Threads, erro \in BOOLEAN : add_movimentacao_select(t, erro)
    \/ \E t \in Threads, erro \in BOOLEAN : add_movimentacao_insert(t, erro)
    \/ \E t \in Threads, erro \in BOOLEAN : add_movimentacao_update(t, erro)
    \/ \E t \in Threads, erro \in BOOLEAN : add_movimentacao_commit(t, erro)
    \/ \E t \in Threads : finally(t)
    \/ \E t \in Threads : crash(t)
    \/ nextId = 1 /\ add_autopeca(FormA, "nenhuma") /\ UNCHANGED threads

SpecThreads == Init /\ [][NextThreads]_vars

\* Every operation of the application as a whole request, and beside them
\* outbound movements run statement by statement on one thread.
NextHistorico ==
    \/ Prox(LoginAna, {<<FormA, "nenhuma">>}, {<<FormA, "nenhuma">>}, MovsMinimo,
            {"nenhuma"}, {"nenhuma"})
    \/ add_movimentacao_inicio("t1", FormMovC)
    \/ \E ok \in BOOLEAN : get_db_connection("t1", ok)
    \/ \E erro \in BOOLEAN : add_movimentacao_select("t1", erro)
    \/ \E erro \in BOOLEAN : add_movimentacao_insert("t1", erro)
    \/ \E erro \in BOOLEAN : add_movimentacao_update("t1", erro)
    \/ \E erro \in BOOLEAN : add_movimentacao_commit("t1", erro)
    \/ finally("t1")
    \/ crash("t1")

SpecHistorico == Init /\ [][NextHistorico]_vars

\* Movements of either part, in and out, a negative quantity among them.
FormsMovSequencial ==
    [id_peca : {<<"1">>, <<"2">>},
     quantidade : {<<"5">>, <<"-", "2", "0">>},
     tipo_movimentacao : {<<"E", "n", "t", "r", "a", "d", "a">>, <<"s", "a", "i", "d", "a">>}]

\* One request after the other and no statement failing: parts are created,
\* and movements run statement by statement on one thread, nothing else
\* running while one is under way.
NextSequencial ==
    \/ \E p \in LoginAna : Livre("t1") /\ login_post(p[1], p[2], p[3]) /\ UNCHANGED threads
    \/ \E f \in FormsValidos : Livre("t1") /\ add_autopeca(f, "nenhuma") /\ UNCHANGED threads
    \/ \E f \in FormsMovSequencial : add_movimentacao_inicio("t1", f)
    \/ get_db_connection("t1", TRUE)
    \/ add_movimentacao_select("t1", FALSE)
    \/ add_movimentacao_insert("t1", FALSE)
    \/ add_movimentacao_update("t1", FALSE)
    \/ add_movimentacao_commit("t1", FALSE)
    \/ finally("t1")

SpecSequencial == Init /\ [][NextSequencial]_vars

\* ------------------------------------------------------------- properties

Protegidas ==
    {"dashboard", "autopecas", "add_autopeca", "edit_autopeca", "update_autopeca",
     "delete_autopeca", "estoque", "add_movimentacao"}

SemMarcador == "user_id" \notin DOMAIN session

Categorias(r) == {r.flashes[i][2] : i \in 1..Len(r.flashes)}

\* C1: in every reachable state every part row has ESTOQUE >= 0.
C1_EstoqueNaoNegativo == \A i \in DOMAIN autopeca : autopeca[i].ESTOQUE >= 0

\* C2: a movement submission by a logged-in user that reaches the part lookup
\* and aborts, because the part id names no part or because the direction is
\* not ENTRADA and the quantity exceeds the current stock, writes no movement
\* record, leaves every part row as it was, flashes the matching message
\* ('not found' / 'insufficient stock') and redirects to the stock view.
PedidosMovLidos ==
    {[form |-> p[1], falha |-> p[2], id |-> PyInt(p[1].id_peca), q |-> PyInt(p[1].quantidade)] :
        p \in PedidosMov}

C2_AbortoNaoEscreve ==
    [][(resp'.handler = "add_movimentacao" /\ ~SemMarcador) =>
        \A p \in PedidosMovLidos :
            LET ausente == p.id.val \notin DOMAIN autopeca
                saidaMaior == /\ ~ausente
                              /\ p.form.tipo_movimentacao # <<"E", "n", "t", "r", "a", "d", "a">>
                              /\ p.q.val > autopeca[p.id.val].ESTOQUE
            IN  ( /\ p.falha \notin {"conexao", "execute1"}
                  /\ p.id.ok /\ p.q.ok
                  /\ (ausente \/ saidaMaior)
                  /\ add_movimentacao(p.form, p.falha) )
                => /\ movimentacoes' = movimentacoes
                   /\ autopeca' = autopeca
                   /\ resp'.tipo = "redirect" /\ resp'.alvo = "estoque"
                   /\ resp'.flashes = IF ausente THEN <<MsgNaoEncontrada>>
                                      ELSE <<MsgInsuficiente>>
      ]_vars

C2_Witness ==
    /\ resp.handler = "add_movimentacao"
    /\ resp.flashes = <<MsgInsuficiente>>
    /\ DOMAIN autopeca # {}

\* C3: a protected route handled while the session holds no user marker
\* redirects to login, opens no database connection and changes neither the
\* tables nor the session; and logout leaves the session without the marker,
\* so this covers every request between a logout and the next login.
C3_GuardaDeSessao ==
    [][ /\ (SemMarcador /\ resp'.handler \in Protegidas) =>
             /\ resp'.tipo = "redirect" /\ resp'.alvo = "login"
             /\ resp'.abertas = 0
             /\ resp'.flashes = <<>>
             /\ UNCHANGED <<session, autopeca, nextId, movimentacoes>>
        /\ (resp'.handler = "logout") => "user_id" \notin DOMAIN session'
      ]_vars

C3_Witness ==
    /\ resp.handler = "add_movimentacao"
    /\ resp.alvo = "login"
    /\ SemMarcador
    /\ DOMAIN autopeca # {}

\* C4: the session's user marker is set only by a login submission whose
\* email and password both equal those of one stored user, and it is set to
\* that user's id; a submission that matches no user leaves the session as it
\* was and, when the lookup ran, flashes 'invalid credentials' and renders the
\* login view again.
C4_LoginSoComCredenciais ==
    [][ /\ ( /\ "user_id" \in DOMAIN session'
             /\ (SemMarcador \/ session'["user_id"] # session["user_id"]) )
           => \E p \in PedidosLogin :
                 /\ login_post(p[1], p[2], p[3])
                 /\ \E u \in usuario :
                       /\ u.EMAIL = p[1] /\ u.SENHA = p[2]
                       /\ session'["user_id"] = u.ID_USUARIO
        /\ (resp'.handler = "login") =>
             \A p \in PedidosLogin :
                ( /\ ~ \E u \in usuario : u.EMAIL = p[1] /\ u.SENHA = p[2]
                  /\ login_post(p[1], p[2], p[3]) )
                => /\ session' = session
                   /\ (p[3] = "nenhuma" =>
                          /\ resp'.tipo = "render" /\ resp'.alvo = "login.html"
                          /\ resp'.flashes =
                               <<<<"Credenciais invalidas. Tente novamente.", "error">>>>)
      ]_vars

C4_Witness ==
    /\ resp.handler = "login"
    /\ resp.flashes = <<<<"Credenciais invalidas. Tente novamente.", "error">>>>
    /\ SemMarcador

\* The part requests with the form's numbers read once.
PedidosPecaLidos ==
    {[form |-> p[1], falha |-> p[2], e |-> PyInt(p[1].estoque),
      m |-> PyInt(p[1].estoque_minimo), pr |-> PyFloat(p[1].preco)] : p \in PedidosPeca}

\* What the claims call an invalid submission: a number that does not parse,
\* a negative stock or threshold, or a price that is not positive.
Invalido(p) ==
    \/ ~p.e.ok \/ ~p.m.ok \/ ~p.pr.ok
    \/ p.e.val < 0 \/ p.m.val < 0 \/ p.pr.val.num <= 0

PedidosPecaInvalidos == {p \in PedidosPecaLidos : Invalido(p)}

\* C5: a create or update submission by a logged-in user whose price is <= 0,
\* or whose stock or threshold is < 0, or whose stock, threshold or price is
\* not a number, creates or changes no part row, opens no database
\* connection, flashes an error and redirects to the form it came from: the
\* list view for create, the edit form of the same id for update.
C5_InvalidoNaoGrava ==
    [][(resp'.handler \in {"add_autopeca", "update_autopeca"} /\ ~SemMarcador) =>
        LET nadaGravado == /\ UNCHANGED <<autopeca, nextId, movimentacoes>>
                           /\ resp'.abertas = 0
                           /\ Categorias(resp') = {"error"}
                           /\ resp'.tipo = "redirect"
        IN  \A p \in PedidosPecaInvalidos :
               /\ \/ resp'.handler # "add_autopeca"
                  \/ nadaGravado /\ resp'.alvo = "autopecas"
                  \/ ~add_autopeca(p.form, p.falha)
               /\ \A id \in Ids :
                     \/ resp'.handler # "update_autopeca"
                     \/ nadaGravado /\ resp'.alvo = "edit_autopeca" /\ resp'.arg = id
                     \/ ~update_autopeca(id, p.form, p.falha)
      ]_vars

C5_Witness ==
    /\ resp.handler = "update_autopeca"
    /\ resp.alvo = "edit_autopeca"
    /\ resp.flashes = <<<<"Preco deve ser maior que zero", "error">>>>
    /\ resp.arg \in DOMAIN autopeca

\* C6: a create submission by a logged-in user with stock >= 0, threshold >= 0
\* and price > 0, whose connection opens and whose insert raises no database
\* error, leaves exactly one new part row, holding the submitted name,
\* description, serial number, compatibility, stock, threshold and price, and
\* every row that existed before as it was.
C6_CriacaoExata ==
    [][(resp'.handler = "add_autopeca" /\ ~SemMarcador) =>
        \A p \in PedidosPecaLidos :
            ( /\ ~Invalido(p)
              /\ p.falha \notin {"conexao", "execute1"}
              /\ add_autopeca(p.form, p.falha) )
            => /\ Cardinality(DOMAIN autopeca' \ DOMAIN autopeca) = 1
               /\ DOMAIN autopeca \subseteq DOMAIN autopeca'
               /\ \A i \in DOMAIN autopeca : autopeca'[i] = autopeca[i]
               /\ \A i \in DOMAIN autopeca' \ DOMAIN autopeca :
                     /\ autopeca'[i].NOME_PECA = p.form.nome_peca
                     /\ autopeca'[i].DESCRICAO = p.form.descricao
                     /\ autopeca'[i].NUM_SERIAL = p.form.num_serie
                     /\ autopeca'[i].COMPATIBILIDADE = p.form.compatibilidade
                     /\ autopeca'[i].ESTOQUE = p.e.val
                     /\ autopeca'[i].ESTOQUE_MINIMO = p.m.val
                     /\ autopeca'[i].PRECO = p.pr.val
                     /\ (p.form = FormA =>
                            /\ autopeca'[i].ESTOQUE = 10
                            /\ autopeca'[i].ESTOQUE_MINIMO = 5
                            /\ autopeca'[i].PRECO = [num |-> 15, den |-> 10])
      ]_vars

C6_Witness ==
    /\ resp.handler = "add_autopeca"
    /\ resp.flashes = <<<<"Autopeca adicionada com sucesso!", "success">>>>
    /\ Cardinality(DOMAIN autopeca) = 2

SAIDA == <<"S", "A", "I", "D", "A">>

EhEntrada(form) == form.tipo_movimentacao = <<"E", "n", "t", "r", "a", "d", "a">>

\* C7: a movement that commits appends exactly one movement record (acting
\* user, part id, quantity as submitted, direction upper-cased) and sets the
\* part's stock to old stock + quantity when the direction is ENTRADA in any
\* letter case, and to old stock - quantity for every other direction; no
\* other column and no other part changes.  From stock 10, inbound 5 gives 15.
C7_MovimentacaoComitada ==
    [][(resp'.handler = "add_movimentacao" /\ ~SemMarcador) =>
        \A p \in PedidosMovLidos :
            ( /\ p.falha = "nenhuma"
              /\ Categorias(resp') \cap {"success", "warning"} # {}
              /\ add_movimentacao(p.form, p.falha) )
            => LET id == p.id.val
                   q == p.q.val
                   antes == autopeca[id].ESTOQUE
               IN  /\ movimentacoes' =
                        Append(movimentacoes,
                               [ID_USUARIO |-> session["user_id"], ID_PECA |-> id,
                                QUANTIDADE |-> q,
                                TIPO_MOVI |-> IF EhEntrada(p.form) THEN ENTRADA ELSE SAIDA])
                   /\ DOMAIN autopeca' = DOMAIN autopeca
                   /\ autopeca'[id].ESTOQUE = IF EhEntrada(p.form) THEN antes + q ELSE antes - q
                   /\ autopeca' = [autopeca EXCEPT ![id].ESTOQUE = autopeca'[id].ESTOQUE]
                   /\ (antes = 10 /\ p.form = FormMovA) => autopeca'[id].ESTOQUE = 15
      ]_vars

\* Stock 15 after the inbound 5, and the outbound that followed was rejected.
C7_Witness ==
    /\ resp.handler = "add_movimentacao"
    /\ resp.flashes = <<MsgInsuficiente>>
    /\ Len(movimentacoes) = 1
    /\ movimentacoes[1].TIPO_MOVI = ENTRADA
    /\ \E i \in DOMAIN autopeca : i = movimentacoes[1].ID_PECA /\ autopeca[i].ESTOQUE = 15

\* C8: a movement that commits flashes exactly one message, of the warning
\* class when the new stock is strictly below the part's minimum threshold and
\* of the success class otherwise (equal to the threshold is success); a
\* movement that writes nothing flashes neither a warning nor a success.
C8_AlertaDeMinimo ==
    [][(resp'.handler = "add_movimentacao" /\ ~SemMarcador) =>
        /\ \A p \in PedidosMovLidos :
              ( /\ p.falha = "nenhuma"
                /\ Len(movimentacoes') = Len(movimentacoes) + 1
                /\ add_movimentacao(p.form, p.falha) )
              => /\ Len(resp'.flashes) = 1
                 /\ resp'.flashes[1][2] =
                       IF autopeca'[p.id.val].ESTOQUE < autopeca[p.id.val].ESTOQUE_MINIMO
                       THEN "warning" ELSE "success"
        /\ (movimentacoes' = movimentacoes) =>
              Categorias(resp') \cap {"success", "warning"} = {}
      ]_vars

\* A commit that left the stock exactly at the minimum and flashed success.
C8_Witness ==
    /\ resp.handler = "add_movimentacao"
    /\ Categorias(resp) = {"success"}
    /\ Len(movimentacoes) = 1
    /\ \E i \in DOMAIN autopeca :
          /\ i = movimentacoes[1].ID_PECA
          /\ autopeca[i].ESTOQUE = autopeca[i].ESTOQUE_MINIMO

Referenciada(movs, id) == \E i \in 1..Len(movs) : movs[i].ID_PECA = id

\* C9: for a logged-in user, deleting an id that names no part and opening
\* the edit form of an id that names no part leave the part and movement
\* tables unchanged and answer with a redirect to the list view (the edit
\* form flashing 'not found'), never an exception; and a delete that meets no
\* database failure ends with the id gone or still held by movement history,
\* from where deleting it again changes no table.
C9_ExclusaoIdempotente ==
    [][(resp'.handler \in {"delete_autopeca", "edit_autopeca"} /\ ~SemMarcador) =>
        \A id \in Ids :
           /\ \A falha \in FalhasEscrita :
                 delete_autopeca(id, falha) =>
                    /\ (id \notin DOMAIN autopeca \/ Referenciada(movimentacoes, id)) =>
                          /\ UNCHANGED <<autopeca, nextId, movimentacoes>>
                          /\ resp'.tipo = "redirect" /\ resp'.alvo = "autopecas"
                    /\ (falha = "nenhuma") =>
                          /\ (id \notin DOMAIN autopeca' \/ Referenciada(movimentacoes', id))
                          /\ \A i \in DOMAIN autopeca \ {id} :
                                i \in DOMAIN autopeca' /\ autopeca'[i] = autopeca[i]
           /\ \A falha \in FalhasLeitura :
                 (id \notin DOMAIN autopeca /\ edit_autopeca(id, falha)) =>
                    /\ UNCHANGED <<autopeca, nextId, movimentacoes>>
                    /\ resp'.tipo = "redirect" /\ resp'.alvo = "autopecas"
                    /\ \E k \in 1..Len(resp'.flashes) : resp'.flashes[k] = MsgNaoEncontrada
      ]_vars

\* A delete answered with success although no part was ever created.
C9_Witness ==
    /\ resp.handler = "delete_autopeca"
    /\ resp.flashes = <<<<"Autopeca excluida com sucesso!", "success">>>>
    /\ DOMAIN autopeca = {}
    /\ nextId = 1

\* C10: no handler ends with an uncaught exception, whatever the input.
C10_NenhumErroFatal == resp.tipo # "erro500"

\* C11: every database connection a handler opens is closed before that
\* handler returns, on every exit path (normal completion, a return from
\* inside the try block, a database error raised by any statement), and no
\* request holds more than one connection: a thread opens at most one, has it
\* open exactly between the connect and the finally block, and has returned
\* only with as many closed as opened.
C11_ConexaoFechadaAoRetornar ==
    /\ \A t \in Threads :
          LET th == threads[t]
          IN  /\ th.abertas <= 1
              /\ th.fechadas <= th.abertas
              /\ (th.conn = "aberta") <=> (th.abertas = 1 /\ th.fechadas = 0)
              /\ th.pc = "retornou" => (th.conn # "aberta" /\ th.fechadas = th.abertas)
    /\ resp.abertas <= 1
    /\ resp.fechadas = resp.abertas

\* A movement that found the stock insufficient has returned from inside the
\* try block, its one connection closed.
C11_Witness ==
    /\ resp.handler = "add_movimentacao"
    /\ resp.flashes = <<MsgInsuficiente>>
    /\ resp.abertas = 1
    /\ \E t \in Threads :
          /\ threads[t].pc = "retornou"
          /\ threads[t].handler = "add_movimentacao"
          /\ threads[t].conn = "fechada"

\* C12: the movement insert and the stock update are two separately committed
\* steps with no rollback: when a request that has run its INSERT stops before
\* its UPDATE takes effect (the UPDATE raises a database error, or the
\* handler crashes), its movement row is in the table and stays there while
\* the step leaves every part's stock as it was, and the finally block that
\* follows undoes nothing.
C12_InsertSemRollback ==
    [][\A t \in Threads :
          LET th == threads[t]
          IN  /\ (th.pc = "update" /\ threads'[t].pc \in {"finally", "caiu"}) =>
                    /\ \E i \in 1..Len(movimentacoes') : movimentacoes'[i] = LinhaMovimentacao(th)
                    /\ movimentacoes' = movimentacoes
                    /\ autopeca' = autopeca
              /\ (th.pc = "finally" /\ threads'[t].pc = "retornou") =>
                    /\ movimentacoes' = movimentacoes
                    /\ autopeca' = autopeca
      ]_vars

\* The UPDATE of the only request under way has raised: the movement row is
\* there, the stock is the one the request read, not the one it computed.
C12_Witness ==
    \E t \in Threads :
        LET th == threads[t]
        IN  /\ th.pc = "finally"
            /\ th.inseriu /\ ~th.atualizou
            /\ \A u \in Threads \ {t} : threads[u].pc = "retornou"
            /\ movimentacoes = <<LinhaMovimentacao(th)>>
            /\ autopeca[th.id_peca].ESTOQUE = th.autopeca.ESTOQUE
            /\ th.novo_estoque # th.autopeca.ESTOQUE

\* Thread u has written the stock of the part thread t is about to write, and
\* both had read the same stock before that write: u's value is the one the
\* row holds, so nothing was written between u's UPDATE and now, and t's
\* read, equal to u's, came before it.
LeramOMesmo(t, u) ==
    /\ threads[t].handler = "add_movimentacao"
    /\ threads[t].pc = "update"
    /\ threads[u].handler = "add_movimentacao"
    /\ threads[u].pc \in {"commit", "finally"}
    /\ threads[u].atualizou
    /\ threads[u].id_peca = threads[t].id_peca
    /\ threads[u].autopeca.ESTOQUE = threads[t].autopeca.ESTOQUE
    /\ threads[u].novo_estoque # threads[u].autopeca.ESTOQUE
    /\ threads[t].id_peca \in DOMAIN autopeca
    /\ autopeca[threads[t].id_peca].ESTOQUE = threads[u].novo_estoque

\* C13: two concurrent movement requests against the same part are not
\* isolated: when both have read the same stock before either wrote, and the
\* second now runs its UPDATE, both movement rows are in the table and the
\* stock becomes what the second worked out from the stock it read; the
\* first request's quantity is not in it (a lost update).
C13_AtualizacaoPerdida ==
    [][\A t \in Threads, u \in Threads :
          (t # u /\ LeramOMesmo(t, u) /\ threads'[t].pc = "commit") =>
              LET th == threads[t]
                  uh == threads[u]
                  lido == th.autopeca.ESTOQUE
              IN  /\ \E i, j \in 1..Len(movimentacoes') :
                        /\ i # j
                        /\ movimentacoes'[i] = LinhaMovimentacao(uh)
                        /\ movimentacoes'[j] = LinhaMovimentacao(th)
                  /\ autopeca'[th.id_peca].ESTOQUE =
                        NovoEstoque(lido, th.quantidade, th.tipo_movimentacao)
                  /\ autopeca'[th.id_peca].ESTOQUE #
                        NovoEstoque(uh.novo_estoque, th.quantidade, th.tipo_movimentacao)
      ]_vars

\* Both requests read a stock of ten; five came in, five went out, both rows
\* are written, and the stock is five: the five that came in are lost.
C13_Witness ==
    /\ Len(movimentacoes) = 2
    /\ threads["t1"].pc = "commit" /\ threads["t1"].atualizou
    /\ threads["t2"].pc = "commit" /\ threads["t2"].atualizou
    /\ threads["t1"].autopeca.ESTOQUE = 10
    /\ threads["t2"].autopeca.ESTOQUE = 10
    /\ threads["t1"].novo_estoque = 15
    /\ threads["t2"].novo_estoque = 5
    /\ autopeca[1].ESTOQUE = 5

\* C14: movement records are append-only: across every step of every
\* operation (login, logout, create, update, delete, the views, a movement as
\* a whole request or statement by statement), each movement row present
\* before the step is present, in its place and with identical fields, after
\* it; the table changes only by one row added at its end, and only in a step
\* of the movement handler that runs its INSERT.
C14_HistoricoSoCresce ==
    [][/\ Len(movimentacoes') >= Len(movimentacoes)
       /\ SubSeq(movimentacoes', 1, Len(movimentacoes)) = movimentacoes
       /\ movimentacoes' # movimentacoes =>
             /\ Len(movimentacoes') = Len(movimentacoes) + 1
             /\ \/ \E t \in Threads :
                      /\ threads[t].pc = "insert"
                      /\ threads'[t].pc = "update"
                \/ /\ threads' = threads
                   /\ resp'.handler = "add_movimentacao"
                   /\ resp'.abertas = 1
      ]_vars

\* Two movements of the first part are on record, and a request to delete
\* that part has just been refused.
C14_Witness ==
    /\ Len(movimentacoes) = 2
    /\ movimentacoes[1].ID_PECA = 1
    /\ movimentacoes[2].ID_PECA = 1
    /\ resp.handler = "delete_autopeca"
    /\ resp.flashes = <<<<"Erro ao excluir autopeca", "error">>>>
    /\ 1 \in DOMAIN autopeca

\* The stock a part was created with: the stock field of the form that
\* carries the part's name (no update has touched the row).
EstoqueDeCriacao(i) ==
    PyInt((CHOOSE f \in FormsValidos : f.nome_peca = autopeca[i].NOME_PECA).estoque).val

RECURSIVE SomaQuantidades(_, _, _)
\* The quantities of the part's movement rows among the first n, those whose
\* direction is ENTRADA when entrada is TRUE, the others when it is FALSE.
SomaQuantidades(i, entrada, n) ==
    IF n = 0 THEN 0
    ELSE SomaQuantidades(i, entrada, n - 1) +
         (IF /\ movimentacoes[n].ID_PECA = i
             /\ (movimentacoes[n].TIPO_MOVI = ENTRADA) = entrada
          THEN movimentacoes[n].QUANTIDADE ELSE 0)

\* C15: stock conservation: in a run of create and movement requests handled
\* one after the other, in which no statement fails and no part is updated,
\* whenever no movement is between its INSERT and its UPDATE each part's
\* stock equals its stock at creation plus the quantities of its ENTRADA
\* movement rows minus the quantities of its other movement rows.
C15_ConservacaoDoEstoque ==
    threads["t1"].pc # "update" =>
        \A i \in DOMAIN autopeca :
            autopeca[i].ESTOQUE =
                EstoqueDeCriacao(i)
                + SomaQuantidades(i, TRUE, Len(movimentacoes))
                - SomaQuantidades(i, FALSE, Len(movimentacoes))

\* Two parts exist; the first has one movement in and one out on record and
\* the request that wrote the second has returned.
C15_Witness ==
    /\ DOMAIN autopeca = {1, 2}
    /\ threads["t1"].pc = "retornou"
    /\ Len(movimentacoes) = 2
    /\ movimentacoes[1].ID_PECA = 1
    /\ movimentacoes[2].ID_PECA = 1
    /\ movimentacoes[1].TIPO_MOVI = ENTRADA
    /\ movimentacoes[2].TIPO_MOVI # ENTRADA
    /\ autopeca[1].ESTOQUE # EstoqueDeCriacao(1)

====
